---- MODULE Spec2Model ----
(***************************************************************************)
(* Qcache (src/qcache/qcache.h): set-associative cache units behind the    *)
(* MemSysDev interface, a Tracer leaf device, and the requester threads    *)
(* that drive them.  Every thread owns a call stack of frames; an action   *)
(* is one step of the frame on top of a stack, named after the source line *)
(* it executes (pc "L95r" is the load of ++accesses at line 95, "L95w" its *)
(* store, and so on).  Code that runs while the set lock is held is one    *)
(* step per straight-line piece; the two unprotected counter increments    *)
(* are a load and a store each.                                            *)
(***************************************************************************)
EXTENDS Integers, Sequences, FiniteSets, TLC

\* qcache.h:28 is UINT_MAX; the model aborts at this smaller stamp instead.
TIMESTAMP_MAX == 4

\* Drivers issue the addresses of blocks 0..MaxBlock.
MaxBlock == 2

\* The log of the first calls of a unit is kept up to this length.
MaxHist == 4

\* The drivers of the concurrent runs begin at most MaxCalls calls in all.
MaxCalls == 3

\* Device id of the Tracer leaf; cache units are 1, 2, ...
TRACER == 0

\* "no slot" result of the lookup loop (idx ran off the end of the set).
NoIdx == -1

\* The budget of a harness that lets its drivers begin any number of calls.
Unlimited == -1

VARIABLES
  WAYS, L2SETS, L2LINESZ,   \* template parameters of the Cache units
  SHARED,                   \* template parameter SHARED, per unit
  lowerLevel,               \* per unit: the device below it
  entry,                    \* per thread: the device the thread drives
  caches, via,              \* the CacheGrp vectors; per thread: the index it
                            \* passed to getMemSysDev (NoIdx: none)
  inputs, flags,            \* the addresses and write flags the drivers issue
  keep,                     \* how many of the stream's last records are kept
  tagarray, tsarray, tsmax, \* per unit
  setLocks, accessLock,     \* per unit; 0 = free, else the holding thread
  accesses, misses,         \* per unit
  tracefile, traced,        \* the Tracer's stream: its last records; its length
  stack,                    \* per thread: frames, innermost call first
  budget,                   \* calls the drivers may still begin (Unlimited: any)
  aborted,                  \* abort() was called (ASSERT failed)
  lastOp,                   \* per unit: the last call that returned
  hist,                     \* per unit: log of the first calls that returned
  issued, nLower,           \* per unit: access calls begun; calls made below
  ser                       \* per unit: sequential copy, stepped at accessLock

cfgVars   == <<WAYS, L2SETS, L2LINESZ, SHARED, lowerLevel, entry, caches, via,
              inputs, flags, keep>>
arrayVars == <<tagarray, tsarray, tsmax>>
lockVars  == <<setLocks, accessLock>>
countVars == <<accesses, misses>>
ghostVars == <<lastOp, hist, issued, nLower, ser>>
vars == <<cfgVars, arrayVars, lockVars, countVars, tracefile, traced, stack,
          budget, aborted, ghostVars>>

Units   == DOMAIN SHARED
Threads == DOMAIN entry

(***************************************************************************)
(* Address arithmetic of access and invalidate (lines 98-99, 132-133).     *)
(***************************************************************************)
LineSize == 2 ^ L2LINESZ
NumSets  == 2 ^ L2SETS
NumSlots == WAYS * NumSets

Tag(addr) == addr \div LineSize        \* addr >> L2LINESZ
SetOf(tag) == tag % NumSets            \* tag % (1 << L2SETS)
StateBits(word) == word % LineSize     \* word & stateMask
Or1(word) == IF word % 2 = 1 THEN word ELSE word + 1   \* word | 0x01
BlockAddr(tag) == tag * LineSize       \* tag << L2LINESZ

SlotsOf(set) == (set * WAYS) .. ((set + 1) * WAYS - 1)

\* Line 120 without the state bit: the line is stored but never valid.
LineWordNoState(tag) == BlockAddr(tag)

\* Line 120: the word stored for an installed line.
LineWord(tag) == Or1(BlockAddr(tag))

\* Line 104 comparing the stored word, not its tag bits, with the tag.
SlotHitsUnshifted(ta, idx, tag) == ta[idx] = tag /\ StateBits(ta[idx]) # 0

\* Line 104: the hit test of one slot.
SlotHits(ta, idx, tag) == Tag(ta[idx]) = tag /\ StateBits(ta[idx]) # 0

\* Lines 103-108: the lookup loop from slot idx on.
RECURSIVE LookupFrom(_, _, _, _)
LookupFrom(ta, set, tag, idx) ==
  IF idx >= (set + 1) * WAYS THEN NoIdx
  ELSE IF SlotHits(ta, idx, tag) THEN idx
  ELSE LookupFrom(ta, set, tag, idx + 1)

\* The lookup loop started at the set's second slot, as findVictim's is.
LookupSkipsFirst(ta, set, tag) == LookupFrom(ta, set, tag, set * WAYS + 1)

\* Lines 103-109: the first slot of the set that hits, or NoIdx.
Lookup(ta, set, tag) == LookupFrom(ta, set, tag, set * WAYS)

\* Lines 168-172: the loop of findVictim from slot i on.
RECURSIVE VictimFrom(_, _, _, _, _, _)
VictimFrom(ta, ts, set, i, maxIdx, maxTs) ==
  IF i >= (set + 1) * WAYS THEN maxIdx
  ELSE IF StateBits(ta[i]) = 0 THEN i
  ELSE IF ts[i] > maxTs THEN VictimFrom(ta, ts, set, i + 1, i, ts[i])
  ELSE VictimFrom(ta, ts, set, i + 1, maxIdx, maxTs)

\* findVictim with its loop started at the set's first slot: the first
\* invalid slot of the set, else the slot with the largest stamp.
findVictimScansAll(ta, ts, set) ==
  VictimFrom(ta, ts, set, set * WAYS, set * WAYS, ts[set * WAYS])

\* findVictim as a least-recently-used choice: the first invalid slot of the
\* set, else the slot with the smallest stamp.
findVictimLru(ta, ts, set) ==
  LET slots == SlotsOf(set)
      free  == {i \in slots : StateBits(ta[i]) = 0}
      least == {i \in slots : \A j \in slots : ts[i] <= ts[j]}
  IN  IF free # {} THEN CHOOSE i \in free : \A j \in free : i <= j
      ELSE CHOOSE i \in least : \A j \in least : i <= j

\* Lines 165-173.
findVictim(ta, ts, set) ==
  VictimFrom(ta, ts, set, set * WAYS + 1, set * WAYS, ts[set * WAYS])

\* Line 161 compiled out (the #else branch of line 23): no assertion.
ReplOkAlways(tm, set) == TRUE

\* Line 161: the assertion of updateRepl.
ReplOk(tm, set) == tm[set] # TIMESTAMP_MAX

\* Line 162: ++tsmax[set] on the unsigned timestamp_t, TIMESTAMP_MAX its
\* largest value.
Stamp(tm, set) == (tm[set] + 1) % (TIMESTAMP_MAX + 1)

\* Line 138 with the tag comparison lost: every slot of the set is cleared.
InvMatchesAny(ta, idx, tag) == TRUE

\* Line 138: invalidate's test of one slot (the valid bit is not read).
InvMatches(ta, idx, tag) == Tag(ta[idx]) = tag

\* Lines 137-139: the tag array after invalidate's loop.
InvalidateSet(ta, set, tag) ==
  [idx \in DOMAIN ta |->
     IF idx \in SlotsOf(set) /\ InvMatches(ta, idx, tag) THEN 0 ELSE ta[idx]]

\* The tags held by valid slots of a set.
Resident(ta, set) ==
  {Tag(ta[idx]) : idx \in {i \in SlotsOf(set) : StateBits(ta[i]) # 0}}

(***************************************************************************)
(* access and invalidate run alone, start to end, on a copy of a unit's    *)
(* arrays and miss counter (lines 98-122 and 132-140).                     *)
(***************************************************************************)
SeqAccess(s, addr) ==
  LET tag == Tag(addr)
      set == SetOf(tag)
      hit == Lookup(s.tagarray, set, tag)
      vic == findVictim(s.tagarray, s.tsarray, set)
      ts  == Stamp(s.tsmax, set)
  IN  IF hit # NoIdx
      THEN IF ReplOk(s.tsmax, set)
           THEN [s EXCEPT !.tsmax[set] = ts, !.tsarray[hit] = ts]
           ELSE [s EXCEPT !.dead = TRUE]
      ELSE IF ReplOk(s.tsmax, set)
           THEN [s EXCEPT !.misses = @ + 1, !.tsmax[set] = ts,
                          !.tsarray[vic] = ts, !.tagarray[vic] = LineWord(tag)]
           ELSE [s EXCEPT !.misses = @ + 1, !.dead = TRUE]

SeqInvalidate(s, addr) ==
  [s EXCEPT !.tagarray = InvalidateSet(s.tagarray, SetOf(Tag(addr)), Tag(addr))]

SeqCall(s, op, addr) ==
  IF s.dead THEN s
  ELSE IF op = "access" THEN SeqAccess(s, addr) ELSE SeqInvalidate(s, addr)

(***************************************************************************)
(* Frames and stacks.                                                      *)
(***************************************************************************)
\* Where a call on a device starts.
StartPc(dev, op) ==
  IF dev = TRACER THEN (IF op = "access" THEN "L61" ELSE "L64")
  ELSE IF op = "access" THEN "L95r" ELSE "L130"

\* Whether the block of addr is resident in device dev (never in the Tracer).
Holds(dev, addr) ==
  /\ dev # TRACER
  /\ Tag(addr) \in Resident(tagarray[dev], SetOf(Tag(addr)))

\* A frame of a call of op on device dev.  tmp is the value a counter
\* increment has loaded; hit the outcome of the lookup (for an invalidate:
\* whether the block was resident).  Recorded at the call: m0, the unit's miss
\* counter, and res, whether the block was resident.  low counts the calls the
\* frame has made below.
Frame(dev, op, addr, wr) ==
  [dev |-> dev, op |-> op, addr |-> addr, wr |-> wr, pc |-> StartPc(dev, op),
   tmp |-> 0, hit |-> FALSE, low |-> 0,
   m0 |-> IF dev = TRACER THEN 0 ELSE misses[dev], res |-> Holds(dev, addr)]

Top(t) == Head(stack[t])
Running(t) == ~aborted /\ stack[t] # <<>>
At(t, pcs) == Running(t) /\ Top(t).dev # TRACER /\ Top(t).pc \in pcs

SetTop(t, f) == stack' = [stack EXCEPT ![t] = <<f>> \o Tail(@)]
Goto(t, pc) == SetTop(t, [Top(t) EXCEPT !.pc = pc])

TopTag(t) == Tag(Top(t).addr)
TopSet(t) == SetOf(TopTag(t))

(***************************************************************************)
(* Construction: the Cache constructor (lines 75-79) with initArrays       *)
(* (lines 175-186), over a Tracer (line 58), and idle requester threads.   *)
(***************************************************************************)
NoCall == [op |-> "none", tag |-> 0, hit |-> FALSE, low |-> 0, dm |-> 0]
Unlogged == [op |-> "unlogged", tag |-> 0, hit |-> FALSE, low |-> 0, dm |-> 0]
Over == <<[addr |-> -1, hit |-> FALSE]>>

FreshUnit ==
  [tagarray |-> [i \in 0 .. NumSlots - 1 |-> 0],
   tsarray  |-> [i \in 0 .. NumSlots - 1 |-> 0],
   tsmax    |-> [s \in 0 .. NumSets - 1 |-> 0],
   misses   |-> 0,
   dead     |-> FALSE]

\* One unit (device 1) over the Tracer.  h gives the harness: the unit's
\* possible geometries and SHARED flags, the threads that drive it, the blocks,
\* offsets and write flags they issue, and what the run records (the initial
\* lastOp and hist, Unlogged and Over for "not recorded"; the number of stream
\* records kept).
InitOneUnit(h) ==
  /\ \E g \in h.geometries :
       /\ WAYS = g.ways
       /\ L2SETS = g.l2sets
       /\ L2LINESZ = g.l2linesz
  /\ SHARED \in [{1} -> h.shared]
  /\ lowerLevel = [u \in {1} |-> TRACER]
  /\ entry \in [h.threads -> h.entries]
  /\ caches = <<>>
  /\ via = [t \in h.threads |-> NoIdx]
  /\ inputs = {b * LineSize + o : b \in h.blocks, o \in h.offsets}
  /\ flags = h.flags
  /\ keep = h.keep
  /\ tagarray = [u \in Units |-> FreshUnit.tagarray]
  /\ tsarray = [u \in Units |-> FreshUnit.tsarray]
  /\ tsmax = [u \in Units |-> FreshUnit.tsmax]
  /\ setLocks = [u \in Units |-> [s \in 0 .. NumSets - 1 |-> 0]]
  /\ accessLock = [u \in Units |-> 0]
  /\ accesses = [u \in Units |-> 0]
  /\ misses = [u \in Units |-> 0]
  /\ tracefile = <<>>
  /\ traced = 0
  /\ stack = [t \in Threads |-> <<>>]
  /\ budget = h.budget
  /\ aborted = FALSE
  /\ lastOp = [u \in Units |-> h.lastOp]
  /\ hist = [u \in Units |-> h.hist]
  /\ issued = [u \in Units |-> 0]
  /\ nLower = [u \in Units |-> 0]
  /\ ser = [u \in Units |-> FreshUnit]

\* One requester thread on one private unit; the last call is recorded.
InitSeq ==
  InitOneUnit([geometries |->
                 {[ways |-> 1, l2sets |-> 1, l2linesz |-> 2],
                  [ways |-> 3, l2sets |-> 0, l2linesz |-> 1]},
               shared |-> {FALSE}, threads |-> {1}, entries |-> {1},
               blocks |-> 0 .. MaxBlock, offsets |-> {0, 1}, flags |-> BOOLEAN,
               lastOp |-> NoCall, hist |-> Over, keep |-> 0,
               budget |-> Unlimited])

\* One requester thread on one fresh private unit; its first calls are logged.
InitLog ==
  InitOneUnit([geometries |->
                 {[ways |-> 1, l2sets |-> 0, l2linesz |-> 6],
                  [ways |-> 2, l2sets |-> 0, l2linesz |-> 1],
                  [ways |-> 3, l2sets |-> 0, l2linesz |-> 1]},
               shared |-> {FALSE}, threads |-> {1}, entries |-> {1},
               blocks |-> 0 .. MaxBlock + 1, offsets |-> {0},
               flags |-> {FALSE},
               lastOp |-> Unlogged, hist |-> <<>>, keep |-> 0,
               budget |-> Unlimited])

\* Two requester threads on one unit, shared or private.
InitConc ==
  InitOneUnit([geometries |->
                 {[ways |-> 3, l2sets |-> 0, l2linesz |-> 1],
                  [ways |-> 2, l2sets |-> 1, l2linesz |-> 1]},
               shared |-> BOOLEAN, threads |-> {1, 2}, entries |-> {1},
               blocks |-> 0 .. 1, offsets |-> {0}, flags |-> {FALSE},
               lastOp |-> Unlogged, hist |-> Over, keep |-> 0,
               budget |-> MaxCalls])

(***************************************************************************)
(* CacheGrp (lines 193-216).  A group's vector `caches` is a sequence of    *)
(* unit ids; index i of the code is position i + 1.                        *)
(***************************************************************************)
\* A getCache that returns the group's first unit whatever the index.
getCacheFirst(vec, i) == vec[1]

\* Lines 206-208: getCache(i) returns caches[i].
getCache(vec, i) == vec[i + 1]

\* Line 210: getMemSysDev(i) returns getCache(i).
getMemSysDev(vec, i) == getCache(vec, i)

\* Lines 196-199: each of the group's units is built over the device ll.
GrpOverDevice(vec, ll) == [k \in 1 .. Len(vec) |-> ll]

\* Lines 201-204: unit i is built over ll.getMemSysDev(i).
GrpOverSet(vec, llvec) == [k \in 1 .. Len(vec) |-> getMemSysDev(llvec, k - 1)]

\* The units of the two topologies: a group over a group over the Tracer,
\* and a group over one shared Cache over the Tracer.
UpperGrp == <<1, 2>>
LowerGrp == <<3, 4>>
SharedLlc == 3

\* lowerLevel of every unit, as the constructors leave it.
Wired(topology) ==
  IF topology = "set"
  THEN [u \in 1 .. 4 |->
          IF u <= 2 THEN GrpOverSet(UpperGrp, LowerGrp)[u]
          ELSE GrpOverDevice(LowerGrp, TRACER)[u - 2]]
  ELSE [u \in 1 .. 3 |->
          IF u <= 2 THEN GrpOverDevice(UpperGrp, SharedLlc)[u] ELSE TRACER]

\* A hierarchy of groups.  h gives the harness: the topologies and
\* geometries, the threads with the indexes they pass to getMemSysDev of
\* the upper group, the blocks they issue, and their call budget.
InitGroups(h) ==
  /\ \E g \in h.geometries :
       /\ WAYS = g.ways
       /\ L2SETS = g.l2sets
       /\ L2LINESZ = g.l2linesz
  /\ \E topology \in h.topologies :
       /\ lowerLevel = Wired(topology)
       /\ SHARED = [u \in DOMAIN lowerLevel |->
                      topology = "single" /\ u = SharedLlc]
       /\ caches = IF topology = "set" THEN <<UpperGrp, LowerGrp>>
                   ELSE <<UpperGrp>>
  /\ via \in h.vias
  /\ entry = [t \in DOMAIN via |-> getMemSysDev(UpperGrp, via[t])]
  /\ inputs = {b * LineSize : b \in h.blocks}
  /\ flags = {FALSE}
  /\ keep = 0
  /\ tagarray = [u \in Units |-> FreshUnit.tagarray]
  /\ tsarray = [u \in Units |-> FreshUnit.tsarray]
  /\ tsmax = [u \in Units |-> FreshUnit.tsmax]
  /\ setLocks = [u \in Units |-> [s \in 0 .. NumSets - 1 |-> 0]]
  /\ accessLock = [u \in Units |-> 0]
  /\ accesses = [u \in Units |-> 0]
  /\ misses = [u \in Units |-> 0]
  /\ tracefile = <<>>
  /\ traced = 0
  /\ stack = [t \in Threads |-> <<>>]
  /\ budget = h.budget
  /\ aborted = FALSE
  /\ lastOp = [u \in Units |-> Unlogged]
  /\ hist = [u \in Units |-> Over]
  /\ issued = [u \in Units |-> 0]
  /\ nLower = [u \in Units |-> 0]
  /\ ser = [u \in Units |-> FreshUnit]

\* One requester thread on unit 0 or unit 1 of a group built over a device
\* set or over one shared device.
InitGrp ==
  InitGroups([geometries |->
                {[ways |-> 1, l2sets |-> 0, l2linesz |-> 1],
                 [ways |-> 2, l2sets |-> 1, l2linesz |-> 1]},
              topologies |-> {"set", "single"},
              vias |-> [{1} -> {0, 1}],
              blocks |-> 0 .. 1,
              budget |-> Unlimited])

(***************************************************************************)
(* The requester threads: a thread that is not inside a call begins one    *)
(* on the device it drives.                                                *)
(***************************************************************************)
Push(t, f) == stack' = [stack EXCEPT ![t] = <<f>> \o @]

\* A driver begins a call if the harness still lets it.
Begin ==
  /\ budget # 0
  /\ budget' = IF budget = Unlimited THEN Unlimited ELSE budget - 1
Pop(t) == stack' = [stack EXCEPT ![t] = Tail(@)]

CallAccess(t) ==
  /\ ~aborted
  /\ stack[t] = <<>>
  /\ Begin
  /\ \E a \in inputs, w \in flags :
       LET d == entry[t]
       IN  /\ Push(t, Frame(d, "access", a, w))
           /\ issued' = IF d = TRACER THEN issued
                        ELSE [issued EXCEPT ![d] = @ + 1]
  /\ UNCHANGED <<cfgVars, arrayVars, lockVars, countVars, tracefile, traced,
                 aborted, lastOp, hist, nLower, ser>>

CallInvalidate(t) ==
  /\ ~aborted
  /\ stack[t] = <<>>
  /\ Begin
  /\ \E a \in inputs :
       LET d == entry[t]
       IN  Push(t, Frame(d, "invalidate", a, FALSE))
  /\ UNCHANGED <<cfgVars, arrayVars, lockVars, countVars, tracefile, traced,
                 aborted, ghostVars>>

(***************************************************************************)
(* Cache::access, lines 94-127.                                            *)
(***************************************************************************)
\* Line 95, ++accesses: the load.
IncLoad(t) ==
  /\ At(t, {"L95r"})
  /\ SetTop(t, [Top(t) EXCEPT !.tmp = accesses[Top(t).dev], !.pc = "L95w"])
  /\ UNCHANGED <<budget, cfgVars, arrayVars, lockVars, countVars, tracefile, traced,
                 aborted, ghostVars>>

\* The value ++accesses stores, from the value it loaded.
Incremented(loaded) == loaded + 1

\* Line 95, ++accesses: the store.
IncStore(t) ==
  /\ At(t, {"L95w"})
  /\ accesses' = [accesses EXCEPT ![Top(t).dev] = Incremented(Top(t).tmp)]
  /\ Goto(t, "L96")
  /\ UNCHANGED <<budget, cfgVars, arrayVars, lockVars, misses, tracefile, traced,
                 aborted, ghostVars>>

\* A spin_lock that returns at once, whoever holds the lock.
AccessLockIgnored(u) == TRUE
SetLockIgnored(u, set) == TRUE

\* spin_lock returns only when it has found the lock free.
AccessLockFree(u) == accessLock[u] = 0
SetLockFree(u, set) == setLocks[u][set] = 0

\* Lines 96 and 130: if (SHARED) spin_lock(&accessLock).
LockAccess(t) ==
  /\ At(t, {"L96", "L130"})
  /\ LET f == Top(t)
         u == f.dev
     IN  /\ IF SHARED[u]
            THEN /\ AccessLockFree(u)
                 /\ accessLock' = [accessLock EXCEPT ![u] = t]
                 /\ ser' = [ser EXCEPT ![u] = SeqCall(@, f.op, f.addr)]
            ELSE UNCHANGED <<accessLock, ser>>
         /\ Goto(t, IF f.pc = "L96" THEN "L101" ELSE "L135")
  /\ UNCHANGED <<budget, cfgVars, arrayVars, setLocks, countVars, tracefile, traced,
                 aborted, lastOp, hist, issued, nLower>>

\* Lines 101 and 135: spin_lock(&setLocks[set]).
LockSet(t) ==
  /\ At(t, {"L101", "L135"})
  /\ LET f == Top(t)
         u == f.dev
     IN  /\ SetLockFree(u, TopSet(t))
         /\ setLocks' = [setLocks EXCEPT ![u][TopSet(t)] = t]
         /\ Goto(t, IF f.pc = "L101" THEN "L103" ELSE "L137")
  /\ UNCHANGED <<budget, cfgVars, arrayVars, accessLock, countVars, tracefile, traced,
                 aborted, ghostVars>>

\* abort() of the ASSERT macro, lines 16-20: the process is gone.
Abort ==
  /\ aborted' = TRUE
  /\ UNCHANGED <<budget, cfgVars, arrayVars, lockVars, countVars, tracefile, traced,
                 stack, ghostVars>>

\* Lines 103-109: the lookup loop; on a hit updateRepl, unlock, goto finish.
LookupStep(t) ==
  /\ At(t, {"L103"})
  /\ LET f   == Top(t)
         u   == f.dev
         tag == TopTag(t)
         set == TopSet(t)
         idx == Lookup(tagarray[u], set, tag)
         ts  == Stamp(tsmax[u], set)
     IN  \/ /\ idx # NoIdx
            /\ ReplOk(tsmax[u], set)
            /\ tsmax' = [tsmax EXCEPT ![u][set] = ts]
            /\ tsarray' = [tsarray EXCEPT ![u][idx] = ts]
            /\ setLocks' = [setLocks EXCEPT ![u][set] = 0]
            /\ SetTop(t, [f EXCEPT !.pc = "L126", !.hit = TRUE])
            /\ UNCHANGED <<budget, cfgVars, tagarray, accessLock, countVars,
                           tracefile, traced, aborted, ghostVars>>
         \/ /\ idx # NoIdx
            /\ ~ReplOk(tsmax[u], set)
            /\ Abort
         \/ /\ idx = NoIdx
            /\ Goto(t, "L110r")
            /\ UNCHANGED <<budget, cfgVars, arrayVars, lockVars, countVars,
                           tracefile, traced, aborted, ghostVars>>

\* Line 110, ++misses: the load.
MissLoad(t) ==
  /\ At(t, {"L110r"})
  /\ SetTop(t, [Top(t) EXCEPT !.tmp = misses[Top(t).dev], !.pc = "L110w"])
  /\ UNCHANGED <<budget, cfgVars, arrayVars, lockVars, countVars, tracefile,
                 traced, aborted, ghostVars>>

\* Line 110, ++misses: the store.
MissStore(t) ==
  /\ At(t, {"L110w"})
  /\ misses' = [misses EXCEPT ![Top(t).dev] = Incremented(Top(t).tmp)]
  /\ Goto(t, "L117")
  /\ UNCHANGED <<budget, cfgVars, arrayVars, lockVars, accesses, tracefile,
                 traced, aborted, ghostVars>>

\* Line 117 handing down the address as it came.
LowerAddrUnaligned(addr) == addr

\* Line 117: the address handed to the lower level.
LowerAddr(addr) == BlockAddr(Tag(addr))

\* Line 117: lowerLevel->access(tag<<L2LINESZ, wr); the caller resumes at 118.
CallLower(t) ==
  /\ At(t, {"L117"})
  /\ LET f == Top(t)
         u == f.dev
         d == lowerLevel[u]
         callee == Frame(d, "access", LowerAddr(f.addr), f.wr)
     IN  /\ stack' = [stack EXCEPT ![t] =
                        <<callee, [f EXCEPT !.pc = "L118", !.low = @ + 1]>>
                        \o Tail(@)]
         /\ nLower' = [nLower EXCEPT ![u] = @ + 1]
         /\ issued' = IF d = TRACER THEN issued
                      ELSE [issued EXCEPT ![d] = @ + 1]
  /\ UNCHANGED <<budget, cfgVars, arrayVars, lockVars, countVars, tracefile,
                 traced, aborted, lastOp, hist, ser>>

\* Lines 118-120: findVictim, updateRepl, the store into tagarray.
Install(t) ==
  /\ At(t, {"L118"})
  /\ LET f   == Top(t)
         u   == f.dev
         tag == TopTag(t)
         set == TopSet(t)
         idx == findVictim(tagarray[u], tsarray[u], set)
         ts  == Stamp(tsmax[u], set)
     IN  \/ /\ ReplOk(tsmax[u], set)
            /\ tsmax' = [tsmax EXCEPT ![u][set] = ts]
            /\ tsarray' = [tsarray EXCEPT ![u][idx] = ts]
            /\ tagarray' = [tagarray EXCEPT ![u][idx] = LineWord(tag)]
            /\ Goto(t, "L122")
            /\ UNCHANGED <<budget, cfgVars, lockVars, countVars, tracefile,
                           traced, aborted, ghostVars>>
         \/ /\ ~ReplOk(tsmax[u], set)
            /\ Abort

\* Lines 122 and 140 without the spin_unlock: the set lock stays taken.
UnlockSetForgotten(t) ==
  /\ At(t, {"L122", "L140"})
  /\ Goto(t, IF Top(t).pc = "L122" THEN "L126" ELSE "L142")
  /\ UNCHANGED <<budget, cfgVars, arrayVars, lockVars, countVars, tracefile,
                 traced, aborted, ghostVars>>

\* Lines 122 and 140: spin_unlock(&setLocks[set]).
UnlockSet(t) ==
  /\ At(t, {"L122", "L140"})
  /\ setLocks' = [setLocks EXCEPT ![Top(t).dev][TopSet(t)] = 0]
  /\ Goto(t, IF Top(t).pc = "L122" THEN "L126" ELSE "L142")
  /\ UNCHANGED <<budget, cfgVars, arrayVars, accessLock, countVars, tracefile,
                 traced, aborted, ghostVars>>

\* The record of a unit's last call after one more call has returned.
Returned(last, f, m) ==
  IF last = Unlogged THEN Unlogged
  ELSE [op |-> f.op, tag |-> Tag(f.addr), hit |-> f.hit, low |-> f.low,
        dm |-> m - f.m0]

\* The log of a unit's first calls after one more call has returned.
Logged(h, f) ==
  IF h = Over \/ f.op # "access" \/ Len(h) >= MaxHist THEN Over
  ELSE Append(h, [addr |-> f.addr, hit |-> f.hit])

\* Lines 126-127 and 142-143: if (SHARED) spin_unlock(&accessLock); return.
Finish(t) ==
  /\ At(t, {"L126", "L142"})
  /\ LET f == Top(t)
         u == f.dev
     IN  /\ accessLock' = IF SHARED[u] THEN [accessLock EXCEPT ![u] = 0]
                          ELSE accessLock
         /\ lastOp' = [lastOp EXCEPT ![u] = Returned(@, f, misses[u])]
         /\ hist' = [hist EXCEPT ![u] = Logged(@, f)]
  /\ Pop(t)
  /\ UNCHANGED <<budget, cfgVars, arrayVars, setLocks, countVars, tracefile,
                 traced, aborted, issued, nLower, ser>>

(***************************************************************************)
(* Cache::invalidate, lines 129-143 (its lock steps are LockAccess,        *)
(* LockSet, UnlockSet and Finish above).                                   *)
(***************************************************************************)
\* Lines 137-139.
InvalidateStep(t) ==
  /\ At(t, {"L137"})
  /\ tagarray' = [tagarray EXCEPT ![Top(t).dev] =
                    InvalidateSet(@, TopSet(t), TopTag(t))]
  /\ SetTop(t, [Top(t) EXCEPT !.pc = "L140",
                               !.hit = Holds(Top(t).dev, Top(t).addr)])
  /\ UNCHANGED <<budget, cfgVars, tsarray, tsmax, lockVars, countVars,
                 tracefile, traced, aborted, ghostVars>>

(***************************************************************************)
(* Tracer::access, lines 60-62.                                            *)
(***************************************************************************)
\* The records of the stream that the model keeps.
LastRecords(recs) ==
  IF Len(recs) <= keep THEN recs
  ELSE SubSeq(recs, Len(recs) - keep + 1, Len(recs))

\* The characters std::dec << addr writes for an addr_t: its decimal digits.
Digits == <<"0", "1", "2", "3", "4", "5", "6", "7", "8", "9">>
RECURSIVE Decimal(_)
Decimal(n) ==
  IF n < 10 THEN <<Digits[n + 1]>>
  ELSE Decimal(n \div 10) \o <<Digits[(n % 10) + 1]>>

\* Line 61 writing " R\n" whatever wr is.
KindAlwaysR(wr) == <<" ", "R", "\n">>

\* Line 61: (wr?" W\n":" R\n").
Kind(wr) == IF wr THEN <<" ", "W", "\n">> ELSE <<" ", "R", "\n">>

\* Line 61: the characters of one record.
Line(addr, wr) == Decimal(addr) \o Kind(wr)

TracerAccess(t) ==
  /\ Running(t)
  /\ Top(t).dev = TRACER
  /\ Top(t).op = "access"
  /\ tracefile' = LastRecords(Append(tracefile, Line(Top(t).addr, Top(t).wr)))
  /\ traced' = traced + 1
  /\ Pop(t)
  /\ UNCHANGED <<budget, cfgVars, arrayVars, lockVars, countVars, aborted,
                 ghostVars>>

\* Line 64: Tracer::invalidate throws InvalidAccess; the frame is left by the
\* exception.
TracerInvalidate(t) ==
  /\ Running(t)
  /\ Top(t).dev = TRACER
  /\ Top(t).op = "invalidate"
  /\ Top(t).pc = "L64"
  /\ SetTop(t, [Top(t) EXCEPT !.pc = "InvalidAccess"])
  /\ UNCHANGED <<budget, cfgVars, arrayVars, lockVars, countVars, tracefile,
                 traced, aborted, ghostVars>>

\* The exception leaves a frame: no function of qcache.h catches it, so it
\* passes to the caller's frame, or, past the outermost frame, to the driver.
Unwind(t) ==
  /\ Running(t)
  /\ Top(t).pc = "InvalidAccess"
  /\ stack' = [stack EXCEPT ![t] =
                 IF Len(@) = 1 THEN <<>>
                 ELSE <<[@[2] EXCEPT !.pc = "InvalidAccess"]>> \o Tail(Tail(@))]
  /\ UNCHANGED <<budget, cfgVars, arrayVars, lockVars, countVars, tracefile,
                 traced, aborted, ghostVars>>

Next ==
  \/ \E t \in Threads : CallAccess(t)
  \/ \E t \in Threads : CallInvalidate(t)
  \/ \E t \in Threads : IncLoad(t)
  \/ \E t \in Threads : IncStore(t)
  \/ \E t \in Threads : LockAccess(t)
  \/ \E t \in Threads : LockSet(t)
  \/ \E t \in Threads : LookupStep(t)
  \/ \E t \in Threads : MissLoad(t)
  \/ \E t \in Threads : MissStore(t)
  \/ \E t \in Threads : CallLower(t)
  \/ \E t \in Threads : Install(t)
  \/ \E t \in Threads : UnlockSet(t)
  \/ \E t \in Threads : Finish(t)
  \/ \E t \in Threads : InvalidateStep(t)
  \/ \E t \in Threads : TracerAccess(t)

\* One requester thread on one private unit; the last call is recorded.
SpecSeq == InitSeq /\ [][Next]_vars

\* One requester thread on one fresh unit whose first calls are logged.
SpecLog == InitLog /\ [][Next]_vars

\* Two requester threads on one unit, shared or private.
SpecConc == InitConc /\ [][Next]_vars

\* One requester thread on a Tracer, or on a private unit over a Tracer
\* whose whole stream is kept.
InitTrace ==
  InitOneUnit([geometries |-> {[ways |-> 1, l2sets |-> 0, l2linesz |-> 3]},
               shared |-> {FALSE}, threads |-> {1}, entries |-> {TRACER, 1},
               blocks |-> 0 .. MaxBlock, offsets |-> {0, 1}, flags |-> BOOLEAN,
               lastOp |-> Unlogged, hist |-> Over, keep |-> MaxCalls,
               budget |-> MaxCalls])

NextTrace ==
  \/ Next
  \/ \E t \in Threads : TracerInvalidate(t)
  \/ \E t \in Threads : Unwind(t)

SpecTrace == InitTrace /\ [][NextTrace]_vars

\* Two private units of a group, each driven by its own requester thread,
\* over one shared unit over the Tracer.
InitHier ==
  InitGroups([geometries |-> {[ways |-> 1, l2sets |-> 0, l2linesz |-> 1]},
              topologies |-> {"single"},
              vias |-> {[t \in {1, 2} |-> t - 1]},
              blocks |-> 0 .. 1,
              budget |-> MaxCalls - 1])

\* A step of thread t inside a call (everything but the driver's beginning
\* a new call).
Progress(t) ==
  \/ IncLoad(t)
  \/ IncStore(t)
  \/ LockAccess(t)
  \/ LockSet(t)
  \/ LookupStep(t)
  \/ MissLoad(t)
  \/ MissStore(t)
  \/ CallLower(t)
  \/ Install(t)
  \/ UnlockSet(t)
  \/ Finish(t)
  \/ InvalidateStep(t)
  \/ TracerAccess(t)

\* A running thread keeps executing, and a thread spinning on a lock that is
\* free again and again gets it in the end.
SpecHier ==
  /\ InitHier
  /\ [][Next]_vars
  /\ \A t \in {1, 2} : SF_vars(Progress(t))

\* One requester thread on one unit of a group of two.
SpecGrp == InitGrp /\ [][Next]_vars

(***************************************************************************)
(* Properties.                                                             *)
(***************************************************************************)
Idle == \A t \in Threads : stack[t] = <<>>

\* The unit of the one-unit runs.
U == 1

\* The log of the unit holds exactly n calls (n accesses since construction).
LogHolds(n) == hist[U] # Over /\ Len(hist[U]) = n

LogAddrs == [i \in 1 .. Len(hist[U]) |-> hist[U][i].addr]
LogHits  == [i \in 1 .. Len(hist[U]) |-> hist[U][i].hit]
LogTags  == {Tag(hist[U][i].addr) : i \in 1 .. Len(hist[U])}

\* The first four calls were access(A), access(B), access(A), access(C) with
\* pairwise distinct tags that map to one set, and all four have returned.
AfterABAC ==
  /\ WAYS = 2
  /\ Idle
  /\ LogHolds(4)
  /\ LogAddrs[3] = LogAddrs[1]
  /\ Cardinality({Tag(LogAddrs[1]), Tag(LogAddrs[2]), Tag(LogAddrs[4])}) = 3
  /\ Cardinality({SetOf(Tag(LogAddrs[i])) : i \in 1 .. 4}) = 1

\* C1: on a fresh 2-way cache, after access(A), access(B), access(A),
\* access(C) (distinct tags, one set) A is still resident and B is evicted.
C1_LruKeepsA ==
  AfterABAC =>
    LET set == SetOf(Tag(LogAddrs[1]))
    IN  /\ Tag(LogAddrs[1]) \in Resident(tagarray[U], set)
        /\ Tag(LogAddrs[2]) \notin Resident(tagarray[U], set)

\* The install of a miss is being executed by thread t in this step.
Installs(t) ==
  /\ At(t, {"L118"})
  /\ Running(t)'
  /\ Top(t)' = [Top(t) EXCEPT !.pc = "L122"]

\* Only accesses have been made so far, all to the set of the access of t,
\* and t's access brings the (WAYS+1)-th distinct tag.
BringsOneTooMany(t) ==
  /\ At(t, {"L118", "L122"})
  /\ hist[U] # Over
  /\ TopTag(t) \notin LogTags
  /\ Cardinality(LogTags) = WAYS
  /\ \A tag \in LogTags : SetOf(tag) = TopSet(t)

C4_Capacity ==
  \A set \in 0 .. NumSets - 1 :
    Cardinality(Resident(tagarray[U], set)) <= WAYS

C4_EvictsOne ==
  \A t \in Threads :
    Installs(t) /\ BringsOneTooMany(t) =>
      LET before == Resident(tagarray[U], TopSet(t))
          after  == Resident(tagarray'[U], TopSet(t))
      IN  /\ Cardinality(before \ after) = 1
          /\ TopTag(t) \in after

EndToEndCache == WAYS = 1 /\ L2SETS = 0 /\ L2LINESZ = 6

\* C7: on a fresh 1-way, 1-set cache with 64-byte lines, access(0),
\* access(0), access(64), access(0) are miss, hit, miss (address 0's line is
\* evicted), miss, and leave accesses = 4 and misses = 3.
C7_EndToEnd ==
  EndToEndCache /\ Idle =>
    /\ LogHolds(3) /\ LogAddrs = <<0, 0, 64>> =>
         /\ LogHits = <<FALSE, TRUE, FALSE>>
         /\ Resident(tagarray[U], 0) = {Tag(64)}
    /\ LogHolds(4) /\ LogAddrs = <<0, 0, 64, 0>> =>
         /\ LogHits = <<FALSE, TRUE, FALSE, FALSE>>
         /\ accesses[U] = 4
         /\ misses[U] = 3

C7_Witness ==
  /\ EndToEndCache
  /\ Idle
  /\ LogHolds(4)
  /\ LogAddrs = <<0, 0, 64, 0>>
  /\ accesses[U] = 4

\* Thread t returns from a call on a cache unit in this step.
Returns(t) ==
  /\ At(t, {"L126", "L142"})
  /\ stack[t]' = Tail(stack[t])

\* The call of the unit that returned last was op on the block of tag `tag`.
LastWas(u, op, tag) == lastOp[u].op = op /\ lastOp[u].tag = tag

C3_HitStep ==
  \A t \in Threads :
    LET f == Top(t)
        u == f.dev
    IN  (/\ Returns(t)
         /\ f.op = "access"
         /\ LastWas(u, "access", Tag(f.addr))
         /\ ~lastOp[u].hit)
        => /\ f.hit
           /\ f.low = 0
           /\ nLower'[u] = nLower[u]
           /\ misses[u] = f.m0
           /\ misses'[u] = f.m0

Invalidates(t) ==
  /\ At(t, {"L137"})
  /\ Running(t)'
  /\ Top(t)'.pc = "L140"

C5_ClearStep ==
  \A t \in Threads :
    Invalidates(t) =>
      Resident(tagarray'[Top(t).dev], TopSet(t))
        = Resident(tagarray[Top(t).dev], TopSet(t)) \ {TopTag(t)}

C5_NextStep ==
  \A t \in Threads :
    LET f == Top(t)
        u == f.dev
    IN  (/\ Returns(t)
         /\ f.op = "access"
         /\ lastOp[u].op = "invalidate")
        => /\ Tag(f.addr) = lastOp[u].tag => ~f.hit
           /\ Tag(f.addr) # lastOp[u].tag /\ f.res => f.hit

\* C5: invalidate(X) takes X's tag, and no other tag, out of the resident
\* tags of X's set; the access that returns right after it misses if it is on
\* X's block and hits if it is on another block that is resident.
C5_InvalidateExact == [][C5_ClearStep /\ C5_NextStep]_vars

\* Right after the invalidate of a resident block, an access to another
\* resident block of the same set is about to return as a hit.
C5_Witness ==
  \E t \in Threads :
    LET u == Top(t).dev
    IN  /\ At(t, {"L126"})
        /\ Top(t).hit
        /\ lastOp[u].op = "invalidate"
        /\ lastOp[u].hit
        /\ lastOp[u].tag # TopTag(t)
        /\ SetOf(lastOp[u].tag) = TopSet(t)

\* Frame i of the stack of t is a cache access waiting for the call it made.
Forwarding(t, i) ==
  /\ i > 1
  /\ stack[t][i].dev # TRACER
  /\ stack[t][i].pc = "L118"

C6_CallBelow ==
  \A t \in Threads :
    \A i \in 1 .. Len(stack[t]) :
      LET f == stack[t][i]
      IN  /\ Forwarding(t, i) =>
             /\ stack[t][i - 1].dev = lowerLevel[f.dev]
             /\ stack[t][i - 1].op = "access"
             /\ stack[t][i - 1].addr = f.addr - (f.addr % (2 ^ L2LINESZ))
             /\ stack[t][i - 1].wr = f.wr
          /\ f.dev # TRACER /\ f.op = "access" =>
             /\ f.pc \in {"L118", "L122"} => f.low = 1
             /\ f.pc \notin {"L118", "L122", "L126"} => f.low = 0
             /\ f.pc = "L126" => f.low = (IF f.hit THEN 0 ELSE 1)
          /\ f.dev # TRACER /\ f.op = "invalidate" => f.low = 0

\* C6: a miss calls access on the lower level exactly once, with the
\* block-aligned address and the same wr; a hit (and an invalidate) makes no
\* call below; when no call is in progress the calls a unit has made below
\* are as many as its misses.
C6_MissPropagation ==
  /\ ~aborted => C6_CallBelow
  /\ Idle => \A u \in Units : nLower[u] = misses[u]

\* A write miss on an address that is not block-aligned is inside its call
\* to the lower level.
C6_Witness ==
  \E t \in Threads :
    /\ Len(stack[t]) = 2
    /\ Forwarding(t, 2)
    /\ stack[t][2].addr % LineSize # 0
    /\ stack[t][2].wr
    /\ misses[stack[t][2].dev] = 2

\* C2: on a shared unit, once all calls have returned, accesses equals the
\* number of access calls made.
C2_NoLostIncrement ==
  \A u \in Units : SHARED[u] /\ Idle /\ ~aborted => accesses[u] = issued[u]

\* The arrays and the miss counter of a unit, as the sequential copy has them.
SlotState(u) ==
  [tagarray |-> tagarray[u], tsarray |-> tsarray[u], tsmax |-> tsmax[u],
   misses |-> misses[u], dead |-> FALSE]

\* C8: when no call holds the access lock of a shared unit (so in particular
\* once all calls have returned), the unit's tagarray, tsarray, tsmax and
\* misses are those of the sequential copy that ran the same calls one at a
\* time in the order in which they took the access lock.
C8_Serializable ==
  \A u \in Units :
    SHARED[u] /\ accessLock[u] = 0 /\ ~aborted => SlotState(u) = ser[u]

\* All calls on a shared unit have returned; two of them were misses and an
\* increment of accesses was lost on the way.
C8_Witness ==
  /\ SHARED[U]
  /\ Idle
  /\ ser[U].misses = 2
  /\ accesses[U] < issued[U]
  /\ \E set \in 0 .. NumSets - 1 : tsmax[U][set] = 3

\* The frames of thread t, in any depth of its stack.
FramesOf(t) == {stack[t][i] : i \in 1 .. Len(stack[t])}

\* Positions between spin_lock(&setLocks[set]) and its spin_unlock.
InSetSection == {"L103", "L110r", "L110w", "L117", "L118", "L122", "L137", "L140"}

\* Positions between spin_lock(&accessLock) and its spin_unlock.
InAccessSection == InSetSection \cup {"L101", "L126", "L135", "L142"}

FrameSet(f) == SetOf(Tag(f.addr))

\* Thread t is inside the set section of set `set` of unit u.
InSet(t, u, set) ==
  \E f \in FramesOf(t) :
    f.dev = u /\ f.pc \in InSetSection /\ FrameSet(f) = set

C9_Holder ==
  \A u \in Units : \A set \in 0 .. NumSets - 1 :
    /\ \A t \in Threads : InSet(t, u, set) => setLocks[u][set] = t
    /\ Cardinality({t \in Threads : InSet(t, u, set)}) <= 1

\* The slots and the stamp counter of one set of a unit.
SetState(u, set) ==
  <<[i \in SlotsOf(set) |-> <<tagarray[u][i], tsarray[u][i]>>], tsmax[u][set]>>

C9_WriteStep ==
  \A u \in Units : \A set \in 0 .. NumSets - 1 :
    SetState(u, set)' # SetState(u, set) =>
      \E t \in Threads : InSet(t, u, set) /\ setLocks[u][set] = t

\* C9: at most one thread is between taking and releasing setLocks[s]; a
\* thread at a position that reads or writes the slots or the stamp counter of
\* set s is the holder of setLocks[s], and every step that changes them is
\* taken by the holder.
C9_SetMutex == [](~aborted => C9_Holder) /\ [][C9_WriteStep]_vars

\* On a private unit one thread is inside a set's section, in its call to
\* the lower level, while the other waits for the lock of the same set.
C9_Witness ==
  \E t1, t2 \in Threads :
    /\ ~SHARED[U]
    /\ t1 # t2
    /\ Len(stack[t1]) = 2
    /\ stack[t2] # <<>>
    /\ Top(t2).pc \in {"L101", "L135"}
    /\ FrameSet(Top(t2)) = FrameSet(stack[t1][2])

\* Thread t is inside the access section of unit u.
InUnit(t, u) == \E f \in FramesOf(t) : f.dev = u /\ f.pc \in InAccessSection

\* C10: a thread that is anywhere from the set lookup to the end of the
\* install in a shared unit, its call to the lower level included, holds the
\* unit's accessLock, so at most one thread is there.
C10_AccessSerialized ==
  ~aborted =>
    \A u \in Units :
      SHARED[u] =>
        /\ \A t \in Threads : InUnit(t, u) => accessLock[u] = t
        /\ Cardinality({t \in Threads : InUnit(t, u)}) <= 1

\* On a shared unit one thread is in its call to the lower level while the
\* other waits for the access lock.
C10_Witness ==
  \E t1, t2 \in Threads :
    /\ SHARED[U]
    /\ t1 # t2
    /\ Len(stack[t1]) = 2
    /\ stack[t2] # <<>>
    /\ Top(t2).pc \in {"L96", "L130"}

\* Thread t, inside an invalidate on a cache unit, takes this step.
InvalidateMoves(t) ==
  /\ Running(t)
  /\ Top(t).dev # TRACER
  /\ Top(t).op = "invalidate"
  /\ stack[t]' # stack[t]

C12_FrameStep ==
  \A t \in Threads :
    InvalidateMoves(t) =>
      LET u == Top(t).dev
      IN  /\ accesses' = accesses
          /\ misses' = misses
          /\ tsarray' = tsarray
          /\ tsmax' = tsmax
          /\ nLower' = nLower
          /\ traced' = traced
          /\ tracefile' = tracefile
          /\ Len(stack[t]') <= Len(stack[t])
          /\ \A v \in Units \ {u} : tagarray'[v] = tagarray[v]
          /\ \A i \in DOMAIN tagarray[u] :
               tagarray'[u][i] =
                 IF /\ Invalidates(t)
                    /\ i \in SlotsOf(TopSet(t))
                    /\ tagarray[u][i] \div (2 ^ L2LINESZ) = TopTag(t)
                 THEN 0
                 ELSE tagarray[u][i]

\* C12: no step of an invalidate makes a call below or changes accesses,
\* misses, tsarray or tsmax; its loop sets to 0 exactly the slots of addr's
\* set whose stored tag is addr's tag, valid or not, and no other slot.
C12_InvalidateFrame == [][C12_FrameStep]_vars

\* An invalidate has just cleared a resident line of one set while the other
\* set of the unit holds a line and stamps and counters are non-zero.
C12_Witness ==
  \E t \in Threads :
    /\ At(t, {"L140"})
    /\ Top(t).op = "invalidate"
    /\ Top(t).hit
    /\ NumSets = 2
    /\ Resident(tagarray[Top(t).dev], 1 - TopSet(t)) # {}
    /\ tsarray[Top(t).dev][TopSet(t) * WAYS] > 0
    /\ misses[Top(t).dev] >= 2

\* The slots of unit u that get a new stamp in this step.
Stamped(u) == {i \in DOMAIN tsarray[u] : tsarray'[u][i] # tsarray[u][i]}

\* The valid and the invalid slots of a set, among all its WAYS slots.
ValidSlots(u, set) == {i \in SlotsOf(set) : tagarray[u][i] % (2 ^ L2LINESZ) # 0}
FreeSlots(u, set) == SlotsOf(set) \ ValidSlots(u, set)

\* C16: the slot an install writes is the lowest invalid slot of the set if
\* any of its WAYS slots is invalid, and otherwise the slot of the set with
\* the largest stamp.
C16_VictimAsSpecified ==
  [][\A t \in Threads :
       Installs(t) =>
         LET u == Top(t).dev
             set == TopSet(t)
         IN  \A i \in Stamped(u) :
               IF FreeSlots(u, set) # {}
               THEN i \in FreeSlots(u, set)
                    /\ \A j \in FreeSlots(u, set) : i <= j
               ELSE \A j \in SlotsOf(set) : tsarray[u][j] <= tsarray[u][i]]_vars

\* Thread t is at a call of updateRepl (line 105 after a lookup that finds
\* the block, or line 119) and takes this step.
Touches(t) ==
  /\ \/ At(t, {"L103"}) /\ Holds(Top(t).dev, Top(t).addr)
     \/ At(t, {"L118"})
  /\ Top(t).op = "access"
  /\ (stack[t]' # stack[t] \/ aborted' # aborted)

C17_TouchStep ==
  \A t \in Threads :
    Touches(t) =>
      LET u == Top(t).dev
          set == TopSet(t)
      IN  IF tsmax[u][set] = TIMESTAMP_MAX
          THEN aborted' /\ tsmax' = tsmax /\ tsarray' = tsarray
          ELSE /\ ~aborted'
               /\ tsmax' = [tsmax EXCEPT ![u][set] = tsmax[u][set] + 1]
               /\ \E i \in SlotsOf(set) :
                    tsarray' = [tsarray EXCEPT ![u][i] = tsmax[u][set] + 1]

C17_OtherStep ==
  (~ \E t \in Threads : Touches(t)) =>
    tsmax' = tsmax /\ tsarray' = tsarray /\ aborted' = aborted

C17_Monotone ==
  \A u \in Units : \A set \in 0 .. NumSets - 1 :
    /\ tsmax'[u][set] >= tsmax[u][set]
    /\ tsmax'[u][set] <= TIMESTAMP_MAX

\* C17: a hit or an install of an access to set s raises tsmax[s] by exactly
\* one and stamps one slot of s with the new value; no other step (an
\* invalidate, an access to another set) changes tsmax or a stamp; tsmax[s]
\* never decreases or passes TIMESTAMP_MAX: a touch made at TIMESTAMP_MAX
\* aborts and leaves the stamps as they are.
C17_StampCounter == [][C17_TouchStep /\ C17_OtherStep /\ C17_Monotone]_vars

\* The process has aborted on a set whose counter is at TIMESTAMP_MAX while
\* the other set's counter is lower.
C17_Witness ==
  /\ aborted
  /\ NumSets = 2
  /\ \E set \in 0 .. 1 :
       /\ tsmax[U][set] = TIMESTAMP_MAX
       /\ tsmax[U][1 - set] \in 1 .. TIMESTAMP_MAX - 1

C18_EvictStep ==
  \A t \in Threads :
    Installs(t) =>
      LET u == Top(t).dev
          set == TopSet(t)
      IN  \A i \in Stamped(u) \cap ValidSlots(u, set) :
            /\ tsarray[u][i] = tsmax[u][set]
            /\ \A j \in ValidSlots(u, set) : tsarray[u][j] <= tsarray[u][i]

\* C18: an install that overwrites a valid line overwrites the line whose
\* stamp is tsmax[set], the line of the set touched last; no valid line of the
\* set has a larger stamp.
C18_EvictsMru == [][C18_EvictStep]_vars

\* Three accesses with distinct tags, all misses, and nothing else have been
\* made on a fresh 3-way unit, and it holds two lines: the third install
\* has overwritten a valid line while an older one stays.
C18_Witness ==
  /\ WAYS = 3
  /\ Idle
  /\ LogHolds(3)
  /\ Cardinality(LogTags) = 3
  /\ LogHits = <<FALSE, FALSE, FALSE>>
  /\ Resident(tagarray[U], 0) = {Tag(LogAddrs[1]), Tag(LogAddrs[3])}

\* C19: with WAYS >= 2 the first slot of every set still has tag 0 and
\* stamp 0, so a set holds at most WAYS-1 valid lines.
C19_WayZeroUnused ==
  WAYS >= 2 =>
    \A u \in Units : \A set \in 0 .. NumSets - 1 :
      /\ tagarray[u][set * WAYS] = 0
      /\ tsarray[u][set * WAYS] = 0
      /\ Cardinality(ValidSlots(u, set)) <= WAYS - 1

\* Four accesses with distinct tags have been made on a fresh 3-way unit
\* and its set holds two lines.
C19_Witness ==
  /\ WAYS = 3
  /\ Idle
  /\ LogHolds(4)
  /\ Cardinality(LogTags) = 4
  /\ Cardinality(ValidSlots(U, 0)) = 2

\* C20: on a shared unit called by several threads, misses never exceeds
\* accesses.
C20_MissesAtMostAccesses ==
  \A u \in Units : SHARED[u] => misses[u] <= accesses[u]

\* C15: in every set the valid slots hold pairwise distinct tags, and each
\* holds a tag that maps to the set.
C15_NoDuplicateResidency ==
  \A u \in Units : \A set \in 0 .. NumSets - 1 :
    /\ \A i, j \in ValidSlots(u, set) :
         Tag(tagarray[u][i]) = Tag(tagarray[u][j]) => i = j
    /\ \A i \in ValidSlots(u, set) : SetOf(Tag(tagarray[u][i])) = set

\* Two threads are inside calls on a private 3-way unit that holds two lines,
\* one of them waiting for the set lock the other holds.
C15_Witness ==
  /\ WAYS = 3
  /\ ~SHARED[U]
  /\ Cardinality(ValidSlots(U, 0)) = 2
  /\ \E t1, t2 \in Threads :
       /\ t1 # t2
       /\ At(t1, {"L101"})
       /\ setLocks[U][0] = t2

\* Unit u is as its constructor left it and has not been called.
Untouched(u) ==
  /\ tagarray[u] = FreshUnit.tagarray
  /\ tsarray[u] = FreshUnit.tsarray
  /\ tsmax[u] = FreshUnit.tsmax
  /\ accesses[u] = 0
  /\ misses[u] = 0
  /\ issued[u] = 0

\* The group was built over a device set (another group).
OverSet == Len(caches) = 2

\* Unit i of the upper group, and the device its misses must reach: device i
\* of the lower group, or the one device the group was built over.
UnitOf(i) == caches[1][i + 1]
BelowOf(i) ==
  IF OverSet THEN caches[2][i + 1]
  ELSE CHOOSE u \in Units : \A k \in 1 .. Len(caches[1]) : caches[1][k] # u

\* C14: a thread that calls getMemSysDev(i) of a group runs in unit i; the
\* call a miss of unit i makes is on device i of the device set (or on the
\* one shared device); every other unit of either group stays untouched; with
\* no call in progress the accesses of that device are the misses of unit i.
C14_GroupWiring ==
  \A t \in Threads :
    via[t] # NoIdx =>
      LET me == UnitOf(via[t])
          below == BelowOf(via[t])
      IN  /\ \A k \in 1 .. Len(stack[t]) :
               /\ stack[t][k].dev \in {me, below, TRACER}
               /\ k = Len(stack[t]) => stack[t][k].dev = me
               /\ k < Len(stack[t]) /\ stack[t][k + 1].dev = me
                    => stack[t][k].dev = below /\ stack[t][k].op = "access"
          /\ \A u \in Units \ {me, below} : Untouched(u)
          /\ Idle /\ ~aborted =>
               /\ accesses[below] = misses[me]
               /\ nLower[me] = misses[me]

\* The thread went through getMemSysDev(1) of a group built over a device
\* set; unit 1 has hit and missed, device 1 of the set has been accessed, and
\* unit 0 and device 0 are untouched.
C14_Witness ==
  /\ OverSet
  /\ Idle
  /\ \A t \in Threads : via[t] = 1
  /\ misses[UnitOf(1)] >= 2
  /\ accesses[UnitOf(1)] > misses[UnitOf(1)]
  /\ accesses[BelowOf(1)] >= 2
  /\ Untouched(UnitOf(0))
  /\ Untouched(BelowOf(0))

\* The value of a decimal digit character, and of a string of them.
CharValue ==
  ("0" :> 0) @@ ("1" :> 1) @@ ("2" :> 2) @@ ("3" :> 3) @@ ("4" :> 4) @@
  ("5" :> 5) @@ ("6" :> 6) @@ ("7" :> 7) @@ ("8" :> 8) @@ ("9" :> 9)
RECURSIVE Number(_)
Number(cs) ==
  IF cs = <<>> THEN 0
  ELSE 10 * Number(SubSeq(cs, 1, Len(cs) - 1)) + CharValue[cs[Len(cs)]]

\* line is '<addr in decimal> W' or '<addr in decimal> R', newline-ended.
IsRecord(line, addr, wr) ==
  /\ Len(line) >= 4
  /\ LET ds == SubSeq(line, 1, Len(line) - 3)
     IN  /\ \A k \in 1 .. Len(ds) : ds[k] \in DOMAIN CharValue
         /\ (Len(ds) = 1 \/ ds[1] # "0")
         /\ Number(ds) = addr
  /\ line[Len(line) - 2] = " "
  /\ line[Len(line) - 1] = (IF wr THEN "W" ELSE "R")
  /\ line[Len(line)] = "\n"

\* Thread t, inside a call of op on the Tracer, takes this step.
TracerMoves(t, op) ==
  /\ Running(t)
  /\ Top(t).dev = TRACER
  /\ Top(t).op = op
  /\ stack[t]' # stack[t]

C13_AccessStep ==
  \A t \in Threads :
    TracerMoves(t, "access") =>
      /\ stack[t]' = Tail(stack[t])
      /\ ~aborted'
      /\ traced' = traced + 1
      /\ Len(tracefile') = Len(tracefile) + 1
      /\ SubSeq(tracefile', 1, Len(tracefile)) = tracefile
      /\ IsRecord(tracefile'[Len(tracefile')], Top(t).addr, Top(t).wr)
      /\ Len(stack[t]) > 1 =>
           LET c == stack[t][2]
           IN  /\ c.dev # TRACER
               /\ c.op = "access"
               /\ ~c.hit
               /\ Top(t).addr = c.addr - (c.addr % (2 ^ L2LINESZ))
               /\ Top(t).wr = c.wr
               /\ traced + 1 = misses[c.dev]

C13_InvalidateStep ==
  \A t \in Threads :
    TracerMoves(t, "invalidate") =>
      /\ tracefile' = tracefile
      /\ traced' = traced
      /\ Top(t).pc = "L64" =>
           stack[t]' = <<[Top(t) EXCEPT !.pc = "InvalidAccess"]>> \o Tail(stack[t])
      /\ Top(t).pc = "InvalidAccess" => stack[t]' = Tail(stack[t])

C13_OtherStep ==
  (~ \E t \in Threads : TracerMoves(t, "access")) =>
    tracefile' = tracefile /\ traced' = traced

\* InvalidAccess is only ever in flight out of a Tracer::invalidate that the
\* driver called itself; below a Cache the stream has one record per miss.
C13_NoRaise ==
  \A t \in Threads :
    /\ \A k \in 1 .. Len(stack[t]) :
         stack[t][k].pc = "InvalidAccess" =>
           /\ stack[t][k].dev = TRACER
           /\ stack[t][k].op = "invalidate"
           /\ Len(stack[t]) = 1
    /\ entry[t] # TRACER /\ Idle => traced = misses[entry[t]]

\* C13: Tracer::access returns normally and appends exactly one record,
\* '<addr in decimal> W' or '<addr in decimal> R', after the records already
\* there; Tracer::invalidate raises InvalidAccess and appends nothing; below a
\* Cache the k-th record is the block-aligned address and wr of the cache's
\* k-th miss, and no call on the Cache raises InvalidAccess.
C13_TracerContract ==
  /\ []C13_NoRaise
  /\ [][C13_AccessStep /\ C13_InvalidateStep /\ C13_OtherStep]_vars

\* A Cache over the Tracer has missed on a write to 17 and on a read of 9 and
\* then hit; the stream is "16 W", "8 R".
C13_Witness ==
  /\ Idle
  /\ \A t \in Threads : entry[t] = U
  /\ tracefile = << <<"1", "6", " ", "W", "\n">>, <<"8", " ", "R", "\n">> >>
  /\ misses[U] = 2
  /\ accesses[U] = 3

\* How many devices lie below device d.
RECURSIVE Depth(_)
Depth(d) == IF d = TRACER THEN 0 ELSE 1 + Depth(lowerLevel[d])

\* The units in which thread t holds the access lock, or a set lock.
HoldsAccessIn(t) == {u \in Units : accessLock[u] = t}
HoldsSetIn(t) == {u \in Units : \E set \in 0 .. NumSets - 1 : setLocks[u][set] = t}

\* Thread t is at a spin_lock: the one of the access lock, of a set lock.
SpinsOnAccess(t) == At(t, {"L96", "L130"}) /\ SHARED[Top(t).dev]
SpinsOnSet(t) == At(t, {"L101", "L135"})

\* Locks are taken top-down: own access lock, own set lock, then the locks
\* of the unit below; calls only go down.
C11_LockOrder ==
  \A t \in Threads :
    /\ SpinsOnAccess(t) =>
         \A u \in HoldsAccessIn(t) \cup HoldsSetIn(t) :
           Depth(u) > Depth(Top(t).dev)
    /\ SpinsOnSet(t) =>
         /\ \A u \in HoldsSetIn(t) : Depth(u) > Depth(Top(t).dev)
         /\ \A u \in HoldsAccessIn(t) : Depth(u) >= Depth(Top(t).dev)
    /\ \A k \in 1 .. Len(stack[t]) - 1 :
         Depth(stack[t][k].dev) < Depth(stack[t][k + 1].dev)

\* While a call is in progress some thread inside a call can take a step.
C11_NoDeadlock ==
  (~aborted /\ ~Idle) => ENABLED (\E t \in Threads : Progress(t))

\* C11: in a hierarchy of private units over a shared unit over a leaf,
\* locks are taken in downward order only, no state with a call in progress
\* is a deadlock, and under fair lock acquisition every started call returns.
C11_DeadlockFree ==
  /\ [](C11_LockOrder /\ C11_NoDeadlock)
  /\ \A t \in {1, 2} : (stack[t] # <<>>) ~> (stack[t] = <<>> \/ aborted)

\* One thread is inside the shared unit, called from its private unit whose
\* set lock it holds, while the other spins on the shared unit's access lock
\* holding the set lock of its own private unit.
C11_Witness ==
  \E t1, t2 \in Threads :
    /\ t1 # t2
    /\ SpinsOnAccess(t2)
    /\ accessLock[Top(t2).dev] = t1
    /\ HoldsSetIn(t2) # {}
    /\ HoldsSetIn(t1) \cap {u \in Units : ~SHARED[u]} # {}
    /\ Len(stack[t1]) = 3

====
